---- MODULE Spec2Model ----
(***************************************************************************)
(* A model of src/src/bitaware.py: the BitFlag enumeration whose metaclass *)
(* BitFlagMeta tests the declared constants, and BitAware, an int subclass *)
(* carrying a validated value and an optional BitFlag type.                *)
(*                                                                         *)
(* Python values are tagged records (PyInt, PyStr, PyFloat, PyNone); an    *)
(* exception is an outcome record whose exc field names its class.  The    *)
(* interpreter's part in a call (type.__call__ running the inherited       *)
(* int.__new__ before __init__, EnumMeta's truth value and containment     *)
(* test) is modelled where the source relies on it.                        *)
(***************************************************************************)
EXTENDS Integers, Sequences, FiniteSets, TLC

\* obj: the instance the caller holds (live = FALSE before the first
\* successful construction); result: the last call and its outcome
VARIABLES obj, result

vars == <<obj, result>>

(***************************************************************************)
(* Bounds of the model.                                                    *)
(***************************************************************************)
\* integers handed to the constructor, to has() and to == range over
\* -NegValues .. MaxValue
MaxValue == 8
NegValues == 2
\* a sampled BitFlag class declares at most MaxMembers of the pool's constants
MaxMembers == 3
\* BitFlagMeta.__new__ is tried on class bodies of at most MaxDecl constants
\* with values in -NegValues .. MaxDeclValue
MaxDecl == 2
MaxDeclValue == 4

(***************************************************************************)
(* Python values.                                                          *)
(***************************************************************************)
PyInt(n) == [t |-> "int", n |-> n, s |-> ""]
PyStr(s) == [t |-> "str", n |-> 0, s |-> s]
\* a float is kept as its truncation toward zero and its literal
PyFloat(whole, lit) == [t |-> "float", n |-> whole, s |-> lit]
PyNone == [t |-> "NoneType", n |-> 0, s |-> ""]

Ints == {PyInt(n) : n \in (0 - NegValues)..MaxValue}
NonInts == {PyStr("5"), PyStr("abc"), PyFloat(5, "5.5"), PyNone}
Values == Ints \cup NonInts

\* isinstance(value, int)
isinstance_int(v) == v.t = "int"

\* the outcome of a call: exc = "" when it returns
Ok(ret) == [exc |-> "", msg |-> <<>>, ret |-> ret]
Raise(exc, msg) == [exc |-> exc, msg |-> msg, ret |-> PyNone]

RECURSIVE BitAnd(_, _)
\* a & b on non-negative integers
BitAnd(a, b) ==
    IF a = 0 \/ b = 0 THEN 0
    ELSE (a % 2) * (b % 2) + 2 * BitAnd(a \div 2, b \div 2)

(***************************************************************************)
(* BitFlagMeta: the definition of a BitFlag class.                         *)
(***************************************************************************)
\* BitFlagMeta.is_power_of_two; `and` evaluates n & (n - 1) only when n > 0
is_power_of_two(n) == n > 0 /\ BitAnd(n, n - 1) = 0

\* the names of the model that start with "_" (name.startswith("_")); the
\* enum machinery keeps a single-underscore name such as _x as an ordinary
\* member: only _sunder_ and __dunder__ names are set apart by it
UnderscoreNames == {"_x", "_HIDDEN"}
startswith_underscore(name) == name \in UnderscoreNames

\* the names a sampled class body declares
DeclNames == {"A", "B", "_x"}

Decl(name, value) == [name |-> name, value |-> value]

\* a class body: constants with distinct names, in declaration order
DistinctNames(cd) ==
    \A i, j \in 1..Len(cd) : cd[i].name = cd[j].name => i = j

SeqsUpTo(S, n) == UNION {[1..k -> S] : k \in 0..n}

ClassDicts ==
    {cd \in SeqsUpTo({Decl(nm, v) : nm \in DeclNames,
                                    v \in (0 - NegValues)..MaxDeclValue}, MaxDecl) :
        DistinctNames(cd)}

\* the constants the loop of __new__ rejects, by position
Offending(cd) ==
    {i \in 1..Len(cd) :
        ~startswith_underscore(cd[i].name) /\ ~is_power_of_two(cd[i].value)}

Min(S) == CHOOSE x \in S : \A y \in S : x <= y

\* a BitFlag type: its named members (__members__) in declaration order.
\* The classes handed to BitAware declare distinct powers of two, so that
\* iterating the class gives these same members.  isNone marks the argument
\* None (no type at all)
FlagType(members) == [isNone |-> FALSE, members |-> members]
NoFlags == [isNone |-> TRUE, members |-> <<>>]

\* BitFlagMeta.__new__(mcs, cls, bases, classdict): the first offending
\* constant raises; otherwise EnumMeta builds the type from the class body
BitFlagMeta_new(cd) ==
    IF Offending(cd) # {}
    THEN LET d == cd[Min(Offending(cd))]
         IN  Raise("ValueError",
                   <<"Value ", ToString(d.value), " for '", d.name,
                     "' is not a power of 2">>)
    ELSE Ok(FlagType(cd))

\* class F(BitFlag): <cd>
DefineFlagSet(cd) ==
    /\ result' = [op |-> "class", classdict |-> cd, out |-> BitFlagMeta_new(cd)]
    /\ UNCHANGED obj

(***************************************************************************)
(* The BitFlag classes the constructor is given: every class body over the *)
(* pool that BitFlagMeta.__new__ accepts.                                   *)
(***************************************************************************)
Pool == {Decl("A", 1), Decl("B", 2), Decl("C", 4)}

SampleClassDicts == {cd \in SeqsUpTo(Pool, MaxMembers) : DistinctNames(cd)}

FlagSets ==
    {BitFlagMeta_new(cd).ret : cd \in {c \in SampleClassDicts : BitFlagMeta_new(c).exc = ""}}

(***************************************************************************)
(* BitAware.                                                               *)
(***************************************************************************)
\* int(s) for a str s: the integer that s is the decimal form of, if any
IsDecimal(s) == \E n \in (0 - NegValues)..MaxValue : ToString(n) = s
ParseDecimal(s) == CHOOSE n \in (0 - NegValues)..MaxValue : ToString(n) = s

\* class BitAware(int, ...) defines no __new__: a call of the class runs
\* int.__new__(cls, *args, **kwargs) first.  extra tells how the call passes
\* flags: "omitted", "positional" (read by int as its base) or "keyword"
int_new(value, extra) ==
    CASE extra = "positional" ->
            Raise("TypeError", <<"object cannot be interpreted as an integer">>)
      [] extra = "keyword" ->
            Raise("TypeError", <<"'flags' is an invalid keyword argument for int()">>)
      [] OTHER ->
            CASE value.t = "int" -> Ok(value.n)
              [] value.t = "float" -> Ok(value.n)
              [] value.t = "str" ->
                    IF IsDecimal(value.s) THEN Ok(ParseDecimal(value.s))
                    ELSE Raise("ValueError",
                               <<"invalid literal for int() with base 10: ", value.s>>)
              [] OTHER ->
                    Raise("TypeError", <<"int() argument must be a string, ",
                                         "a bytes-like object or a real number">>)

RECURSIVE SumValues(_)
SumValues(members) ==
    IF members = <<>> THEN 0 ELSE Head(members).value + SumValues(Tail(members))

\* BitAware.__sum_flags
sum_flags(flags) == SumValues(flags.members)

\* the truth value a container has: false when it has no member
TruthyWhenNonEmpty(flags) == ~flags.isNone /\ Len(flags.members) > 0

\* the truth value of the flags argument: None is false, and a class made
\* by EnumMeta is true whatever its members (EnumMeta.__bool__)
Truthy(flags) == ~flags.isNone

Instance(value, flags) == [live |-> TRUE, value |-> value, flags |-> flags]

\* BitAware.__init__(self, value, flags)
BitAware_init(value, flags) ==
    IF ~isinstance_int(value) \/ value.n <= 0
    THEN Raise("ValueError", <<"Value must be a positive integer.">>)
    ELSE IF Truthy(flags) /\ value.n > sum_flags(flags)
    THEN Raise("ValueError",
               <<"Value ", ToString(value.n), " exceeds the possible flag setup.">>)
    ELSE Ok(Instance(value.n, flags))

\* type.__call__: BitAware(value), BitAware(value, flags) or
\* BitAware(value, flags=flags); __init__ runs only when __new__ returned
BitAware_call(value, extra, flags) ==
    LET made == int_new(value, extra)
    IN  IF made.exc # "" THEN made
        ELSE BitAware_init(value, IF extra = "omitted" THEN NoFlags ELSE flags)

\* x = BitAware.__new__(BitAware, value); x.__init__(value, flags): int.__new__
\* sees the value alone and the flags reach __init__ only.  It is what the
\* initializer of a subclass that forwards its own BitFlag class amounts to
BitAware_new_init(value, flags) ==
    LET made == int_new(value, "omitted")
    IN  IF made.exc # "" THEN made ELSE BitAware_init(value, flags)

\* has with | written for &
has_with_or(self, flag) == self.value # 0 \/ flag # 0

\* BitAware.has(self, flag), flag a member's value or any integer >= 0
has(self, flag) == BitAnd(self.value, flag) # 0

\* BitAware.__int__
BitAware_int(self) == self.value

\* what a generator of __iter__ yields: a member of the BitFlag class, or
\* the plain integer
YieldMember(m) == [kind |-> "member", name |-> m.name, value |-> m.value]
YieldInt(n) == [kind |-> "int", name |-> "", value |-> n]

\* BitAware.__iter__ is a generator function: calling it runs nothing
Generator(self) == [self |-> self, pos |-> 0, out |-> <<>>, done |-> FALSE]

\* next(gen): run the body of __iter__ up to its next yield, or to its end.
\* pos is the number of members the loop has taken (bound), or whether the
\* single yield has been passed (unbound)
generator_next(gen) ==
    IF Truthy(gen.self.flags)
    THEN LET ms == gen.self.flags.members
             hits == {i \in (gen.pos + 1)..Len(ms) : has(gen.self, ms[i].value)}
         IN  IF hits = {}
             THEN [gen EXCEPT !.pos = Len(ms), !.done = TRUE]
             ELSE [gen EXCEPT !.pos = Min(hits),
                              !.out = Append(@, YieldMember(ms[Min(hits)]))]
    ELSE IF gen.pos = 0
         THEN [gen EXCEPT !.pos = 1, !.out = Append(@, YieldInt(gen.self.value))]
         ELSE [gen EXCEPT !.done = TRUE]

\* `value in flags`, value a plain int: EnumMeta.__contains__ raises
\* TypeError for an operand that is no member before Python 3.12, and
\* answers whether some member has that value from 3.12 on
enum_contains(flags, value) ==
    \E i \in 1..Len(flags.members) : flags.members[i].value = value

\* flags(value).name for a value that some member has
enum_name(flags, value) ==
    flags.members[Min({i \in 1..Len(flags.members) :
                          flags.members[i].value = value})].name

\* name.isupper() on the names of the model
UpperNames == {"A", "B", "C", "ADMIN", "ONE", "ROOT", "_HIDDEN"}
isupper(name) == name \in UpperNames

\* BitAware.properties(cls); attrs are the integer attributes of the class
\* as inspect.getmembers lists them, sorted by name.  The dict keeps, for a
\* value, the last name that has it
properties(attrs) ==
    LET kept == {i \in 1..Len(attrs) :
                    ~startswith_underscore(attrs[i].name) /\ isupper(attrs[i].name)}
        Max(S) == CHOOSE x \in S : \A y \in S : y <= x
    IN  [v \in {attrs[i].value : i \in kept} |->
            attrs[Max({i \in kept : attrs[i].value = v})].name]

\* the integer attributes a class may carry
ClassAttrs ==
    { <<>>,
      <<Decl("ADMIN", 3), Decl("ONE", 1), Decl("_HIDDEN", 2), Decl("limit", 4)>>,
      <<Decl("ADMIN", 7), Decl("ROOT", 7)>> }

RECURSIVE Join(_, _)
\* sep.join(names), as the pieces of the string
Join(names, sep) ==
    IF names = <<>> THEN <<>>
    ELSE IF Len(names) = 1 THEN <<Head(names)>>
    ELSE <<Head(names), sep>> \o Join(Tail(names), sep)

RECURSIVE SetNames(_, _)
\* [flag.name for flag in self.flags if self.has(flag)]
SetNames(self, members) ==
    IF members = <<>> THEN <<>>
    ELSE (IF has(self, Head(members).value) THEN <<Head(members).name>> ELSE <<>>)
         \o SetNames(self, Tail(members))

\* BitAware.__str__, the string as the sequence of its pieces; raises tells
\* whether the interpreter's `in` raises for a plain int
BitAware_str(self, attrs, raises) ==
    IF Truthy(self.flags)
    THEN IF raises
         THEN Raise("TypeError", <<"unsupported operand type(s) for 'in'">>)
         ELSE LET byFlag == IF enum_contains(self.flags, self.value)
                            THEN enum_name(self.flags, self.value)
                            ELSE ToString(self.value)
                  label == IF self.value \in DOMAIN properties(attrs)
                           THEN properties(attrs)[self.value]
                           ELSE byFlag
              IN  Ok(<<label, " [">>
                     \o Join(SetNames(self, self.flags.members), ", ")
                     \o <<"]">>)
    ELSE Ok(<<ToString(self.value)>>)

\* BitAware.__eq__(self, other): "True", "False" or "NotImplemented"
PyBool(b) == IF b THEN "True" ELSE "False"

\* __eq__ that also wants two instances bound alike
eq_with_flags(self, other) ==
    IF other.t = "BitAware"
    THEN PyBool(self.value = other.inst.value /\ self.flags = other.inst.flags)
    ELSE IF isinstance_int(other) THEN PyBool(self.value = other.n)
    ELSE "NotImplemented"

BitAware_eq(self, other) ==
    IF other.t = "BitAware" THEN PyBool(self.value = other.inst.value)
    ELSE IF isinstance_int(other) THEN PyBool(self.value = other.n)
    ELSE "NotImplemented"

\* a BitAware instance as an argument
PyBitAware(inst) == [t |-> "BitAware", n |-> inst.value, s |-> "", inst |-> inst]

\* validate without its first test: an instance is an int, and is wrapped anew
validate_without_passthrough(value) ==
    IF value.t \notin {"BitAware", "int"}
    THEN Raise("TypeError", <<"Expected int, got ", value.t>>)
    ELSE IF value.n <= 0
    THEN Raise("ValueError", <<"Value must be a positive integer.">>)
    ELSE Ok([same |-> FALSE, inst |-> [live |-> TRUE, value |-> value.n, flags |-> NoFlags]])

\* BitAware.validate(cls, value) for cls = BitAware; same tells whether the
\* object returned is the argument itself
validate(value) ==
    IF value.t = "BitAware" THEN Ok([same |-> TRUE, inst |-> value.inst])
    ELSE IF ~isinstance_int(value)
    THEN Raise("TypeError", <<"Expected int, got ", value.t>>)
    ELSE IF value.n <= 0
    THEN Raise("ValueError", <<"Value must be a positive integer.">>)
    ELSE LET made == BitAware_call(value, "omitted", NoFlags)
         IN  IF made.exc # "" THEN made
             ELSE Ok([same |-> FALSE, inst |-> made.ret])

(***************************************************************************)
(* The caller: it holds one instance at a time, from a successful          *)
(* construction until it lets it go.                                       *)
(***************************************************************************)
NoObject == [live |-> FALSE, value |-> 0, flags |-> NoFlags]

Init ==
    /\ obj = NoObject
    /\ result = [op |-> "start"]

Hold(out) == IF out.exc = "" THEN out.ret ELSE obj

\* obj = BitAware(value[, flags])
Construct(value, extra, flags) ==
    LET out == BitAware_call(value, extra, flags)
    IN  /\ ~obj.live
        /\ result' = [op |-> "BitAware", value |-> value, extra |-> extra,
                      flags |-> flags, out |-> out]
        /\ obj' = Hold(out)

\* obj = BitAware.__new__(BitAware, value); obj.__init__(value, flags)
ConstructByInit(value, flags) ==
    LET out == BitAware_new_init(value, flags)
    IN  /\ ~obj.live
        /\ result' = [op |-> "new+init", value |-> value, flags |-> flags, out |-> out]
        /\ obj' = Hold(out)

\* del obj, or the end of its scope
Discard ==
    /\ obj.live
    /\ obj' = NoObject
    /\ result' = [op |-> "del"]

\* obj.has(flag)
Has(flag) ==
    /\ obj.live
    /\ result' = [op |-> "has", flag |-> flag, out |-> Ok(has(obj, flag))]
    /\ UNCHANGED obj

\* int(obj)
IntOf ==
    /\ obj.live
    /\ result' = [op |-> "int", out |-> Ok(BitAware_int(obj))]
    /\ UNCHANGED obj

\* gen = iter(obj)
Iter ==
    /\ obj.live
    /\ result' = [op |-> "iter", gen |-> Generator(obj), stopped |-> FALSE]
    /\ UNCHANGED obj

\* next(gen); on an exhausted generator it raises StopIteration
IterNext ==
    /\ result.op = "iter"
    /\ result' = IF result.gen.done
                 THEN [result EXCEPT !.stopped = TRUE]
                 ELSE LET g == generator_next(result.gen)
                      IN  [result EXCEPT !.gen = g, !.stopped = g.done]
    /\ UNCHANGED obj

\* str(obj), the class carrying the attributes attrs
Str(attrs, raises) ==
    /\ obj.live
    /\ result' = [op |-> "str", attrs |-> attrs, raises |-> raises,
                  out |-> BitAware_str(obj, attrs, raises)]
    /\ UNCHANGED obj

\* obj == other, other a plain value
Eq(other) ==
    /\ obj.live
    /\ result' = [op |-> "eq", other |-> other, out |-> Ok(BitAware_eq(obj, other))]
    /\ UNCHANGED obj

\* obj == other, other a second instance, bound to flags or to None
EqInstance(value, flags) ==
    LET made == BitAware_new_init(value, flags)
    IN  /\ obj.live
        /\ made.exc = ""
        /\ result' = [op |-> "eq", other |-> PyBitAware(made.ret),
                      out |-> Ok(BitAware_eq(obj, PyBitAware(made.ret)))]
        /\ UNCHANGED obj

\* BitAware.validate(value), value a plain value
Validate(value) ==
    /\ result' = [op |-> "validate", value |-> value, out |-> validate(value)]
    /\ UNCHANGED obj

\* BitAware.validate(obj)
ValidateInstance ==
    /\ obj.live
    /\ result' = [op |-> "validate", value |-> PyBitAware(obj),
                  out |-> validate(PyBitAware(obj))]
    /\ UNCHANGED obj

\* BitAware(int(obj), obj.flags), the flags omitted (obj unbound), passed
\* by position or by keyword; "new+init" hands them to __init__ only
Rebuild(how) ==
    LET n == PyInt(BitAware_int(obj))
        out == IF how = "new+init" THEN BitAware_new_init(n, obj.flags)
               ELSE BitAware_call(n, how, obj.flags)
    IN  /\ obj.live
        /\ how = "omitted" => obj.flags.isNone
        /\ result' = [op |-> "rebuild", how |-> how, out |-> out]
        /\ UNCHANGED obj

FlagArgs == FlagSets \cup {NoFlags}
HasArgs == 0..MaxValue

Next ==
    \/ \E v \in Values : Construct(v, "omitted", NoFlags)
    \/ \E v \in Values, x \in {"positional", "keyword"}, f \in FlagArgs :
          Construct(v, x, f)
    \/ \E v \in Values, f \in FlagArgs : ConstructByInit(v, f)
    \/ Discard
    \/ \E flag \in HasArgs : Has(flag)
    \/ IntOf
    \/ Iter
    \/ IterNext
    \/ \E attrs \in ClassAttrs, raises \in BOOLEAN : Str(attrs, raises)
    \/ \E other \in Values : Eq(other)
    \/ \E v \in Values, f \in FlagArgs : EqInstance(v, f)
    \/ \E v \in Values : Validate(v)
    \/ ValidateInstance
    \/ \E how \in {"omitted", "positional", "keyword", "new+init"} : Rebuild(how)

Spec == Init /\ [][Next]_vars

NextDef == \E cd \in ClassDicts : DefineFlagSet(cd)

SpecDef == Init /\ [][NextDef]_vars

(***************************************************************************)
(* The claims.  A claim about construction speaks of both ways the model   *)
(* constructs: the call of the class and the init-only route.              *)
(***************************************************************************)
IsConstruction == result.op \in {"BitAware", "new+init"}

\* a construction that hands __init__'s flags parameter a BitFlag class
FlagsGiven == IsConstruction /\ ~result.flags.isNone

IntGiven == IsConstruction /\ result.value.t = "int"

\* out is the return of ret; out is the raise of exc with message msg
Returns(out, ret) == out.exc = "" /\ out.ret = ret
Raises(out, exc, msg) == out.exc = exc /\ out.msg = msg

PositiveMsg == <<"Value must be a positive integer.">>
ExceedsMsg(n) == <<"Value ", ToString(n), " exceeds the possible flag setup.">>

IsPowerOfTwo(n) == \E k \in 0..n : 2 ^ k = n

RECURSIVE Total(_)
Total(members) ==
    IF Len(members) = 0 THEN 0
    ELSE members[Len(members)].value + Total(SubSeq(members, 1, Len(members) - 1))

ABC == FlagType(<<Decl("A", 1), Decl("B", 2), Decl("C", 4)>>)
AB == FlagType(<<Decl("A", 1), Decl("B", 2)>>)
AC == FlagType(<<Decl("A", 1), Decl("C", 4)>>)
Empty == FlagType(<<>>)

\* C1: a construction with a positive integer and a BitFlag class succeeds
\* exactly when the value is at most the sum of the members' values, and
\* fails with the range error when it is above it
C1_RangeCheckDecides ==
    (FlagsGiven /\ IntGiven /\ result.value.n > 0) =>
        IF result.value.n <= Total(result.flags.members)
        THEN Returns(result.out, Instance(result.value.n, result.flags))
        ELSE Raises(result.out, "ValueError", ExceedsMsg(result.value.n))

\* C1, on the init-only route alone: there the bound decides
C1_RangeCheckDecidesInit ==
    result.op = "new+init" => C1_RangeCheckDecides

C1_InitWitness ==
    /\ result.op = "new+init" /\ result.flags = AC
    /\ result.value = PyInt(2) /\ obj = Instance(2, AC)

\* C2: a construction from an integer <= 0 fails with the positivity error
\* whatever the flags, and every instance constructed holds a value > 0
C2_NonPositiveRejected ==
    /\ (IntGiven /\ result.value.n <= 0) =>
            Raises(result.out, "ValueError", PositiveMsg)
    /\ obj.live => obj.value > 0

\* C3: a construction from a value that is no integer fails with a
\* TypeError, not with the ValueError of a non-positive integer
C3_NonIntegerTypeError ==
    (IsConstruction /\ result.value.t # "int") => result.out.exc = "TypeError"

\* C4: the definition of a BitFlag class succeeds exactly when every
\* constant whose name does not start with "_" is a power of two > 0; a
\* failure names an offending constant and its value; every member of a
\* class that exists is a power of two > 0
C4_DefinitionAdmitsPowersOfTwo ==
    result.op = "class" =>
        LET cd == result.classdict
            bad == {i \in 1..Len(cd) :
                       ~startswith_underscore(cd[i].name) /\ ~IsPowerOfTwo(cd[i].value)}
        IN  /\ result.out.exc = "" <=> bad = {}
            /\ bad # {} =>
                 \E i \in bad : /\ result.out.msg[2] = ToString(cd[i].value)
                                /\ result.out.msg[4] = cd[i].name
            /\ result.out.exc = "" =>
                 \A i \in 1..Len(result.out.ret.members) :
                     IsPowerOfTwo(result.out.ret.members[i].value)

\* the members of flags that value selects, in declaration order
RECURSIVE Selected(_, _)
Selected(value, members) ==
    IF members = <<>> THEN <<>>
    ELSE (IF BitAnd(value, Head(members).value) # 0
          THEN <<Head(members)>> ELSE <<>>) \o Selected(value, Tail(members))

IsPrefix(s, t) == Len(s) <= Len(t) /\ s = SubSeq(t, 1, Len(s))

\* what iterating self yields, from first to last
Iterated(self) ==
    IF self.flags.isNone THEN <<YieldInt(self.value)>>
    ELSE LET sel == Selected(self.value, self.flags.members)
         IN  [i \in 1..Len(sel) |-> YieldMember(sel[i])]

\* C5: a generator of obj yields, in declaration order and once each, the
\* members m with value & m.value # 0 (the stored integer alone when
\* unbound): what it has yielded is always a prefix of that sequence, and
\* the whole of it once exhausted, for every generator started on obj
C5_IterationYieldsSetMembers ==
    result.op = "iter" =>
        /\ result.gen.self = obj
        /\ IsPrefix(result.gen.out, Iterated(obj))
        /\ result.gen.done => result.gen.out = Iterated(obj)
        /\ result.stopped => result.gen.done

C5_Witness ==
    /\ result.op = "iter" /\ result.gen.done
    /\ obj = Instance(5, ABC)
    /\ result.gen.out = <<YieldMember(Decl("A", 1)), YieldMember(Decl("C", 4))>>

\* the label the claim gives str(): the property of the value, else the
\* name of the member with exactly that value, else the decimal value
ClaimedLabel(self, attrs) ==
    IF self.value \in DOMAIN properties(attrs) THEN properties(attrs)[self.value]
    ELSE IF \E i \in 1..Len(self.flags.members) : self.flags.members[i].value = self.value
    THEN (CHOOSE m \in {self.flags.members[i] : i \in 1..Len(self.flags.members)} :
             m.value = self.value).name
    ELSE ToString(self.value)

\* C6: str() of a bound instance is "{label} [{names of the set members}]"
\* with the label by that priority, and the decimal value when unbound
C6_StrRendersLabelAndNames ==
    result.op = "str" =>
        Returns(result.out,
            IF obj.flags.isNone THEN <<ToString(obj.value)>>
            ELSE LET sel == Selected(obj.value, obj.flags.members)
                 IN  <<ClaimedLabel(obj, result.attrs), " [">>
                     \o Join([i \in 1..Len(sel) |-> sel[i].name], ", ")
                     \o <<"]">>)

\* C6 where the interpreter's `in` answers by value (Python 3.12)
C6_StrWhenContainsAnswers ==
    (result.op = "str" /\ ~result.raises) => C6_StrRendersLabelAndNames

\* C7: == looks at the stored integers alone: True exactly when they are
\* equal, whatever either side is bound to; against a plain integer, True
\* exactly when it is the stored one; against any other type, NotImplemented
C7_EqualityByValue ==
    result.op = "eq" =>
        Returns(result.out,
               CASE result.other.t = "BitAware" ->
                      IF obj.value = result.other.inst.value THEN "True" ELSE "False"
                 [] result.other.t = "int" ->
                      IF obj.value = result.other.n THEN "True" ELSE "False"
                 [] OTHER -> "NotImplemented")

C7_Witness ==
    /\ result.op = "eq" /\ result.other.t = "BitAware"
    /\ obj = Instance(5, ABC) /\ result.other.inst = Instance(5, NoFlags)
    /\ Returns(result.out, "True")

RECURSIVE Drain(_)
\* list(gen)
Drain(gen) == IF gen.done THEN gen.out ELSE Drain(generator_next(gen))

\* C8: int(x) is the stored integer, and BitAware(int(x), F) with the F of
\* x never fails and gives an instance equal to x that iterates the same
C8_RoundTripThroughInt ==
    /\ result.op = "int" => Returns(result.out, obj.value)
    /\ result.op = "rebuild" =>
          /\ result.out.exc = ""
          /\ BitAware_eq(obj, PyBitAware(result.out.ret)) = "True"
          /\ Drain(Generator(result.out.ret)) = Drain(Generator(obj))

\* C8, on the init-only route alone
C8_RoundTripInit ==
    (result.op = "rebuild" => result.how \in {"omitted", "new+init"})
        => C8_RoundTripThroughInt

\* C9: validate returns a BitAware argument itself, untouched; makes a new
\* unbound instance of a plain integer > 0; raises TypeError for what is no
\* integer and the positivity ValueError for an integer <= 0; what it
\* returns holds a value > 0
C9_ValidateOutcomes ==
    result.op = "validate" =>
        LET v == result.value
        IN  /\ v.t = "BitAware" =>
                 Returns(result.out, [same |-> TRUE, inst |-> obj])
            /\ (v.t = "int" /\ v.n > 0) =>
                 Returns(result.out, [same |-> FALSE, inst |-> Instance(v.n, NoFlags)])
            /\ (v.t = "int" /\ v.n <= 0) =>
                 Raises(result.out, "ValueError", PositiveMsg)
            /\ v.t \notin {"BitAware", "int"} => result.out.exc = "TypeError"
            /\ result.out.exc = "" => result.out.ret.inst.value > 0

C9_Witness ==
    /\ result.op = "validate" /\ result.value.t = "BitAware"
    /\ obj = Instance(3, AB)
    /\ result.out.exc = "" /\ result.out.ret.same /\ result.out.ret.inst.flags = AB

\* C10: the class with no member is defined without error, and no integer
\* constructs an instance bound to it: where the flags reach __init__, a
\* value > 0 fails the range check (the sum is 0) and a value <= 0 fails
\* positivity; the empty class is never taken for None
C10_EmptyFlagSetRejectsAll ==
    /\ Empty \in FlagSets
    /\ (FlagsGiven /\ IntGiven /\ result.flags = Empty) =>
          /\ result.out.exc # ""
          /\ ~obj.live
          /\ result.op = "new+init" =>
                IF result.value.n > 0
                THEN Raises(result.out, "ValueError", ExceedsMsg(result.value.n))
                ELSE Raises(result.out, "ValueError", PositiveMsg)

C10_Witness ==
    /\ result.op = "new+init" /\ result.flags = Empty /\ result.value = PyInt(1)
    /\ Raises(result.out, "ValueError", ExceedsMsg(1))
====
